---------------------------- MODULE Spec2Model ----------------------------
(***************************************************************************)
(* Convex hull of a small planar point set (Jarvis march) and the          *)
(* step-by-step trace of the same algorithm.                               *)
(*                                                                         *)
(* Points are records [x, y] with integer coordinates.  Arrays are         *)
(* sequences; the source indexes from 0, the model from 1, so the source's *)
(* `nextIndex = 0` is 1 here and `(currentIndex + 1) % n` is               *)
(* (currentIndex % n) + 1.                                                 *)
(***************************************************************************)
EXTENDS Integers, Sequences, FiniteSets, TLC

\* Bounds of the model: coordinates range over 0..MaxCoord, inputs have at
\* most MaxLen points.
MaxCoord == 2
MaxLen == 4

\* The larger inputs, used where a hull of 5 or more vertices is needed,
\* have exactly BigLen distinct points.
BigLen == 5

\* The page is modelled with edits of its first Editable points.
Editable == 1

VARIABLES points, pc, result, steps, second,
          currentStepIndex, isPlaying, speed, visualizationMode

vars == <<points, pc, result, steps, second,
          currentStepIndex, isPlaying, speed, visualizationMode>>

\* the playback state of page.tsx
playback == <<currentStepIndex, isPlaying, speed, visualizationMode>>

\* types.ts: Point
Point == [x : 0..MaxCoord, y : 0..MaxCoord]

\* types.ts: HullType
HullType == {"point", "segment", "triangle", "quadrilateral"}

\* the null of `Point | null` fields and of results not computed yet: a
\* record that is no point
null == [null |-> TRUE]

\* the null of the `[Point, Point] | null` field highlightLine, whose other
\* values are pairs
noLine == <<>>

\* page.tsx: initialPoints
initialPoints ==
    <<[x |-> 0, y |-> 0], [x |-> 4, y |-> 0], [x |-> 4, y |-> 3], [x |-> 0, y |-> 3]>>

\* the speed slider of AlgorithmControls.tsx, in steps of the slider (0.5):
\* min 0.5, max 3, and the initial speed 1 of page.tsx
MinSpeed == 1
MaxSpeed == 6
InitialSpeed == 2

RECURSIVE SeqsUpTo(_, _)
SeqsUpTo(S, k) ==
    IF k = 0 THEN {<<>>}
    ELSE LET shorter == SeqsUpTo(S, k - 1)
         IN  shorter \cup {Append(s, e) : s \in {t \in shorter : Len(t) = k - 1}, e \in S}

\* every finite input within the bounds
Inputs == SeqsUpTo(Point, MaxLen)

\* the points of S in ascending order: lower y first, then lower x
RECURSIVE Ascending(_)
Ascending(S) ==
    IF S = {} THEN <<>>
    ELSE LET m == CHOOSE p \in S : \A q \in S \ {p} :
                      p.y < q.y \/ (p.y = q.y /\ p.x < q.x)
         IN  <<m>> \o Ascending(S \ {m})

\* the sequence s read cyclically from its (r + 1)-th element on
Rotate(s, r) == [i \in 1..Len(s) |-> s[((i + r - 1) % Len(s)) + 1]]

\* the larger inputs: every rotation of the ascending listing of every set
\* of BigLen distinct points
BigInputs ==
    {Rotate(Ascending(S), r) : S \in {T \in SUBSET Point : Cardinality(T) = BigLen},
                               r \in 0..(BigLen - 1)}

-----------------------------------------------------------------------------
(* Helpers shared by convexHull.ts, jarvisMarch.ts and jarvisMarchSteps.ts *)

crossProduct(o, a, b) ==
    (a.x - o.x) * (b.y - o.y) - (a.y - o.y) * (b.x - o.x)

distanceSquared(a, b) ==
    (a.x - b.x) * (a.x - b.x) + (a.y - b.y) * (a.y - b.y)

pointsEqual(a, b) == a.x = b.x /\ a.y = b.y

\* the comparison `p.y < q.y || (p.y === q.y && p.x < q.x)`
lowerFirst(p, q) == p.y < q.y \/ (p.y = q.y /\ p.x < q.x)

-----------------------------------------------------------------------------
(* convexHull.ts helpers *)

\* variant: a point already kept is replaced by its later copy, so that the
\* last occurrence of each point is the one that stays
RECURSIVE removeDuplicatesKeepLastFrom(_, _, _)
removeDuplicatesKeepLastFrom(pts, k, unique) ==
    IF k > Len(pts) THEN unique
    ELSE removeDuplicatesKeepLastFrom(pts, k + 1,
             Append(SelectSeq(unique, LAMBDA u : ~pointsEqual(u, pts[k])), pts[k]))

removeDuplicatesKeepLast(pts) == removeDuplicatesKeepLastFrom(pts, 1, <<>>)

\* variant: points compared by reference (`unique.includes(p)`), so that no
\* two elements of the array are ever equal
removeDuplicatesByReference(pts) == pts

RECURSIVE removeDuplicatesFrom(_, _, _)
removeDuplicatesFrom(pts, k, unique) ==
    IF k > Len(pts) THEN unique
    ELSE IF \E u \in 1..Len(unique) : pointsEqual(unique[u], pts[k])
         THEN removeDuplicatesFrom(pts, k + 1, unique)
         ELSE removeDuplicatesFrom(pts, k + 1, Append(unique, pts[k]))

removeDuplicates(pts) == removeDuplicatesFrom(pts, 1, <<>>)

\* variant: `return true` inside the loop, after the first probe
areCollinearFirstProbe(pts) ==
    IF Len(pts) < 3 THEN TRUE
    ELSE crossProduct(pts[1], pts[2], pts[3]) = 0

areCollinear(pts) ==
    IF Len(pts) < 3 THEN TRUE
    ELSE \A i \in 3..Len(pts) : crossProduct(pts[1], pts[2], pts[i]) = 0

\* variant: `dist >= maxDist`, so that the last of the farthest pairs wins
RECURSIVE farthestPairLastWins(_, _, _, _)
farthestPairLastWins(pts, i, j, acc) ==
    IF i > Len(pts) THEN acc
    ELSE IF j > Len(pts) THEN farthestPairLastWins(pts, i + 1, i + 2, acc)
    ELSE LET dist == (pts[i].x - pts[j].x) * (pts[i].x - pts[j].x)
                     + (pts[i].y - pts[j].y) * (pts[i].y - pts[j].y)
         IN  IF dist >= acc.maxDist
             THEN farthestPairLastWins(pts, i, j + 1,
                               [maxDist |-> dist, p1 |-> pts[i], p2 |-> pts[j]])
             ELSE farthestPairLastWins(pts, i, j + 1, acc)

\* the nested loops over i < j; acc = [maxDist, p1, p2]
RECURSIVE farthestPair(_, _, _, _)
farthestPair(pts, i, j, acc) ==
    IF i > Len(pts) THEN acc
    ELSE IF j > Len(pts) THEN farthestPair(pts, i + 1, i + 2, acc)
    ELSE LET dist == (pts[i].x - pts[j].x) * (pts[i].x - pts[j].x)
                     + (pts[i].y - pts[j].y) * (pts[i].y - pts[j].y)
         IN  IF dist > acc.maxDist
             THEN farthestPair(pts, i, j + 1,
                               [maxDist |-> dist, p1 |-> pts[i], p2 |-> pts[j]])
             ELSE farthestPair(pts, i, j + 1, acc)

\* variant: the ends are built from the least and the greatest coordinates
getSegmentEndpointsByCoordinate(pts) ==
    IF Len(pts) <= 1 THEN pts
    ELSE LET xs == {pts[i].x : i \in 1..Len(pts)}
             ys == {pts[i].y : i \in 1..Len(pts)}
             lo(S) == CHOOSE a \in S : \A b \in S : a <= b
             hi(S) == CHOOSE a \in S : \A b \in S : a >= b
         IN  <<[x |-> lo(xs), y |-> lo(ys)], [x |-> hi(xs), y |-> hi(ys)]>>

\* variant: the pair is returned as found, without the final ordering
getSegmentEndpointsUnordered(pts) ==
    IF Len(pts) <= 1 THEN pts
    ELSE LET far == farthestPair(pts, 1, 2,
                                 [maxDist |-> -1, p1 |-> pts[1], p2 |-> pts[1]])
         IN  <<far.p1, far.p2>>

getSegmentEndpoints(pts) ==
    IF Len(pts) <= 1 THEN pts
    ELSE LET far == farthestPair(pts, 1, 2,
                                 [maxDist |-> -1, p1 |-> pts[1], p2 |-> pts[1]])
         IN  IF lowerFirst(far.p1, far.p2)
             THEN <<far.p1, far.p2>>
             ELSE <<far.p2, far.p1>>

\* variant: `quadrilateral` is the case 4 and the default is `point`
getHullTypeFourOnly(vertexCount) ==
    CASE vertexCount = 2 -> "segment"
      [] vertexCount = 3 -> "triangle"
      [] vertexCount = 4 -> "quadrilateral"
      [] OTHER -> "point"

getHullType(vertexCount) ==
    CASE vertexCount = 1 -> "point"
      [] vertexCount = 2 -> "segment"
      [] vertexCount = 3 -> "triangle"
      [] OTHER -> "quadrilateral"

-----------------------------------------------------------------------------
(* jarvisMarch.ts *)

\* variant: the start is chosen by y alone, without the tie-break on x
RECURSIVE findStartNoTieBreak(_, _, _)
findStartNoTieBreak(pts, i, startIndex) ==
    IF i > Len(pts) THEN startIndex
    ELSE IF pts[i].y < pts[startIndex].y
         THEN findStartNoTieBreak(pts, i + 1, i)
         ELSE findStartNoTieBreak(pts, i + 1, startIndex)

\* STEP 1: index of the starting point (lowest y, tie-break: lowest x)
RECURSIVE findStart(_, _, _)
findStart(pts, i, startIndex) ==
    IF i > Len(pts) THEN startIndex
    ELSE IF lowerFirst(pts[i], pts[startIndex])
         THEN findStart(pts, i + 1, i)
         ELSE findStart(pts, i + 1, startIndex)

\* variant: a collinear probe never replaces the candidate
replacesCandidateNoTieBreak(pts, currentIndex, nextIndex, i) ==
    crossProduct(pts[currentIndex], pts[nextIndex], pts[i]) > 0

\* variant: the distance test is not guarded by `cross === 0`
replacesCandidateUnguarded(pts, currentIndex, nextIndex, i) ==
    \/ crossProduct(pts[currentIndex], pts[nextIndex], pts[i]) > 0
    \/ distanceSquared(pts[currentIndex], pts[i])
         > distanceSquared(pts[currentIndex], pts[nextIndex])

\* the candidate test of the inner loop: does probe i replace nextIndex?
replacesCandidate(pts, currentIndex, nextIndex, i) ==
    LET cross == crossProduct(pts[currentIndex], pts[nextIndex], pts[i])
    IN  \/ cross > 0
        \/ /\ cross = 0
           /\ distanceSquared(pts[currentIndex], pts[i])
                > distanceSquared(pts[currentIndex], pts[nextIndex])

\* variant: the inner loop runs `i < n - 1` and never probes the last point
RECURSIVE scanNextMissesLast(_, _, _, _)
scanNextMissesLast(pts, currentIndex, nextIndex, i) ==
    IF i >= Len(pts) THEN nextIndex
    ELSE IF i = currentIndex THEN scanNextMissesLast(pts, currentIndex, nextIndex, i + 1)
    ELSE IF nextIndex = currentIndex THEN scanNextMissesLast(pts, currentIndex, i, i + 1)
    ELSE IF replacesCandidate(pts, currentIndex, nextIndex, i)
         THEN scanNextMissesLast(pts, currentIndex, i, i + 1)
         ELSE scanNextMissesLast(pts, currentIndex, nextIndex, i + 1)

\* the inner for loop of jarvisMarch, from probe i on
RECURSIVE scanNext(_, _, _, _)
scanNext(pts, currentIndex, nextIndex, i) ==
    IF i > Len(pts) THEN nextIndex
    ELSE IF i = currentIndex THEN scanNext(pts, currentIndex, nextIndex, i + 1)
    ELSE IF nextIndex = currentIndex THEN scanNext(pts, currentIndex, i, i + 1)
    ELSE IF replacesCandidate(pts, currentIndex, nextIndex, i)
         THEN scanNext(pts, currentIndex, i, i + 1)
         ELSE scanNext(pts, currentIndex, nextIndex, i + 1)

\* variant: the loop runs `while (hull.length < n)`, without the test that
\* the walk is back at the start
RECURSIVE wrapNoClosure(_, _, _, _)
wrapNoClosure(pts, startIndex, currentIndex, hull) ==
    LET pushed    == Append(hull, pts[currentIndex])
        nextIndex == scanNext(pts, currentIndex, 1, 1)
    IN  IF Len(pushed) < Len(pts)
        THEN wrapNoClosure(pts, startIndex, nextIndex, pushed)
        ELSE pushed

\* variant: the safety bound is `hull.length < n - 1`
RECURSIVE wrapStopsEarly(_, _, _, _)
wrapStopsEarly(pts, startIndex, currentIndex, hull) ==
    LET pushed    == Append(hull, pts[currentIndex])
        nextIndex == scanNext(pts, currentIndex, 1, 1)
    IN  IF nextIndex # startIndex /\ Len(pushed) < Len(pts) - 1
        THEN wrapStopsEarly(pts, startIndex, nextIndex, pushed)
        ELSE pushed

\* the do-while loop of jarvisMarch
RECURSIVE wrap(_, _, _, _)
wrap(pts, startIndex, currentIndex, hull) ==
    LET pushed    == Append(hull, pts[currentIndex])
        nextIndex == scanNext(pts, currentIndex, 1, 1)
    IN  IF nextIndex # startIndex /\ Len(pushed) < Len(pts)
        THEN wrap(pts, startIndex, nextIndex, pushed)
        ELSE pushed

jarvisMarch(pts) ==
    IF Len(pts) < 3 THEN pts
    ELSE LET startIndex == findStart(pts, 2, 1)
         IN  wrap(pts, startIndex, startIndex, <<>>)

-----------------------------------------------------------------------------
(* convexHull.ts, earlier part of the file: giftWrap *)

\* variant: the candidate is replaced when `cross > 0`, as jarvisMarch does
giftWrapReplacesLeftTurn(pts, current, next, i) ==
    LET cross == crossProduct(pts[current], pts[next], pts[i])
    IN  \/ cross > 0
        \/ /\ cross = 0
           /\ distanceSquared(pts[i], pts[current])
                > distanceSquared(pts[next], pts[current])

\* the candidate test of giftWrap's inner loop: `cross < 0`, or `cross === 0`
\* and `distI > distNext`
giftWrapReplaces(pts, current, next, i) ==
    LET cross == crossProduct(pts[current], pts[next], pts[i])
    IN  \/ cross < 0
        \/ /\ cross = 0
           /\ distanceSquared(pts[i], pts[current])
                > distanceSquared(pts[next], pts[current])

\* the inner for loop of giftWrap, from probe i on; it starts at the second
\* point and does not skip the probe `i === current`
RECURSIVE giftWrapScan(_, _, _, _)
giftWrapScan(pts, current, next, i) ==
    IF i > Len(pts) THEN next
    ELSE IF next = current THEN giftWrapScan(pts, current, i, i + 1)
    ELSE IF giftWrapReplaces(pts, current, next, i)
         THEN giftWrapScan(pts, current, i, i + 1)
         ELSE giftWrapScan(pts, current, next, i + 1)

\* the do-while loop of giftWrap
RECURSIVE giftWrapLoop(_, _, _, _)
giftWrapLoop(pts, start, current, hull) ==
    LET pushed == Append(hull, pts[current])
        next   == giftWrapScan(pts, current, 1, 2)
    IN  IF next # start /\ Len(pushed) < Len(pts)
        THEN giftWrapLoop(pts, start, next, pushed)
        ELSE pushed

giftWrap(pts) ==
    IF Len(pts) < 3 THEN pts
    ELSE LET start == findStart(pts, 2, 1)
         IN  giftWrapLoop(pts, start, start, <<>>)

-----------------------------------------------------------------------------
(* convexHull.ts: main function *)

\* variant: the `unique.length === 0` case is missing
convexHullNoEmptyCase(pts) ==
    LET unique == removeDuplicates(pts)
    IN  IF Len(unique) = 1 THEN [type |-> "point", vertices |-> unique]
        ELSE IF Len(unique) = 2
             THEN [type |-> "segment", vertices |-> getSegmentEndpoints(unique)]
        ELSE IF areCollinear(unique)
             THEN [type |-> "segment", vertices |-> getSegmentEndpoints(unique)]
        ELSE LET hull == jarvisMarch(unique)
             IN  [type |-> getHullType(Len(hull)), vertices |-> hull]

convexHull(pts) ==
    LET unique == removeDuplicates(pts)
    IN  IF Len(unique) = 0 THEN [type |-> "point", vertices |-> <<>>]
        ELSE IF Len(unique) = 1 THEN [type |-> "point", vertices |-> unique]
        ELSE IF Len(unique) = 2
             THEN [type |-> "segment", vertices |-> getSegmentEndpoints(unique)]
        ELSE IF areCollinear(unique)
             THEN [type |-> "segment", vertices |-> getSegmentEndpoints(unique)]
        ELSE LET hull == jarvisMarch(unique)
             IN  [type |-> getHullType(Len(hull)), vertices |-> hull]

-----------------------------------------------------------------------------
(* jarvisMarchSteps.ts *)

\* one AlgorithmStep; the description keeps what the text is built from
Step(type, description, current, candidate, checking, hullSoFar, highlight) ==
    [type |-> type, description |-> description,
     currentPoint |-> current, candidatePoint |-> candidate,
     checkingPoint |-> checking, hullSoFar |-> hullSoFar,
     highlightLine |-> highlight]

\* variant: a step that keeps the candidate records the probe as candidatePoint
RECURSIVE scanNextStepsProbeAsCandidate(_, _, _, _, _)
scanNextStepsProbeAsCandidate(pts, currentIndex, hull, st, i) ==
    IF i > Len(pts) THEN st
    ELSE IF i = currentIndex \/ i = st.nextIndex
         THEN scanNextStepsProbeAsCandidate(pts, currentIndex, hull, st, i + 1)
    ELSE
      LET nextIndex == st.nextIndex
          cur       == pts[currentIndex]
          comparing == Step("checking", <<"comparing", currentIndex, nextIndex, i>>,
                            cur, pts[nextIndex], pts[i], hull, <<cur, pts[i]>>)
          cross     == crossProduct(cur, pts[nextIndex], pts[i])
          farther   == distanceSquared(cur, pts[i]) > distanceSquared(cur, pts[nextIndex])
          outcome   ==
            IF cross > 0
            THEN Step("found", <<"more counterclockwise", i, nextIndex>>,
                      cur, pts[i], pts[i], hull, <<cur, pts[i]>>)
            ELSE IF cross = 0
            THEN IF farther
                 THEN Step("found", <<"collinear but farther", i, nextIndex>>,
                           cur, pts[i], pts[i], hull, <<cur, pts[i]>>)
                 ELSE Step("checking", <<"collinear but closer", i, nextIndex>>,
                           cur, pts[i], pts[i], hull, <<cur, pts[nextIndex]>>)
            ELSE Step("checking", <<"more clockwise", i, nextIndex>>,
                      cur, pts[i], pts[i], hull, <<cur, pts[nextIndex]>>)
          newNext   == IF cross > 0 \/ (cross = 0 /\ farther) THEN i ELSE nextIndex
      IN  scanNextStepsProbeAsCandidate(pts, currentIndex, hull,
                        [nextIndex |-> newNext,
                         steps |-> st.steps \o <<comparing, outcome>>],
                        i + 1)

\* variant: no step is pushed when the probe is more clockwise
RECURSIVE scanNextStepsSilentKeep(_, _, _, _, _)
scanNextStepsSilentKeep(pts, currentIndex, hull, st, i) ==
    IF i > Len(pts) THEN st
    ELSE IF i = currentIndex \/ i = st.nextIndex
         THEN scanNextStepsSilentKeep(pts, currentIndex, hull, st, i + 1)
    ELSE
      LET nextIndex == st.nextIndex
          cur       == pts[currentIndex]
          comparing == Step("checking", <<"comparing", currentIndex, nextIndex, i>>,
                            cur, pts[nextIndex], pts[i], hull, <<cur, pts[i]>>)
          cross     == crossProduct(cur, pts[nextIndex], pts[i])
          farther   == distanceSquared(cur, pts[i]) > distanceSquared(cur, pts[nextIndex])
          outcome   ==
            IF cross > 0
            THEN Step("found", <<"more counterclockwise", i, nextIndex>>,
                      cur, pts[i], pts[i], hull, <<cur, pts[i]>>)
            ELSE IF cross = 0
            THEN IF farther
                 THEN Step("found", <<"collinear but farther", i, nextIndex>>,
                           cur, pts[i], pts[i], hull, <<cur, pts[i]>>)
                 ELSE Step("checking", <<"collinear but closer", i, nextIndex>>,
                           cur, pts[nextIndex], pts[i], hull, <<cur, pts[nextIndex]>>)
            ELSE Step("checking", <<"more clockwise", i, nextIndex>>,
                      cur, pts[nextIndex], pts[i], hull, <<cur, pts[nextIndex]>>)
          newNext   == IF cross > 0 \/ (cross = 0 /\ farther) THEN i ELSE nextIndex
      IN  scanNextStepsSilentKeep(pts, currentIndex, hull,
                        [nextIndex |-> newNext,
                         steps |-> IF cross < 0
                                   THEN Append(st.steps, comparing)
                                   ELSE st.steps \o <<comparing, outcome>>],
                        i + 1)

\* the inner for loop of the tracer, from probe i on; st = [nextIndex, steps]
RECURSIVE scanNextSteps(_, _, _, _, _)
scanNextSteps(pts, currentIndex, hull, st, i) ==
    IF i > Len(pts) THEN st
    ELSE IF i = currentIndex \/ i = st.nextIndex
         THEN scanNextSteps(pts, currentIndex, hull, st, i + 1)
    ELSE
      LET nextIndex == st.nextIndex
          cur       == pts[currentIndex]
          comparing == Step("checking", <<"comparing", currentIndex, nextIndex, i>>,
                            cur, pts[nextIndex], pts[i], hull, <<cur, pts[i]>>)
          cross     == crossProduct(cur, pts[nextIndex], pts[i])
          farther   == distanceSquared(cur, pts[i]) > distanceSquared(cur, pts[nextIndex])
          outcome   ==
            IF cross > 0
            THEN Step("found", <<"more counterclockwise", i, nextIndex>>,
                      cur, pts[i], pts[i], hull, <<cur, pts[i]>>)
            ELSE IF cross = 0
            THEN IF farther
                 THEN Step("found", <<"collinear but farther", i, nextIndex>>,
                           cur, pts[i], pts[i], hull, <<cur, pts[i]>>)
                 ELSE Step("checking", <<"collinear but closer", i, nextIndex>>,
                           cur, pts[nextIndex], pts[i], hull, <<cur, pts[nextIndex]>>)
            ELSE Step("checking", <<"more clockwise", i, nextIndex>>,
                      cur, pts[nextIndex], pts[i], hull, <<cur, pts[nextIndex]>>)
          newNext   == IF cross > 0 \/ (cross = 0 /\ farther) THEN i ELSE nextIndex
      IN  scanNextSteps(pts, currentIndex, hull,
                        [nextIndex |-> newNext,
                         steps |-> st.steps \o <<comparing, outcome>>],
                        i + 1)

\* variant: the safety bound of the traced loop is `hull.length <= n`
RECURSIVE wrapStepsBoundTooLate(_, _, _, _, _)
wrapStepsBoundTooLate(pts, startIndex, currentIndex, hull, stepsSoFar) ==
    LET pushed  == Append(hull, pts[currentIndex])
        cur     == pts[currentIndex]
        reason  == IF Len(hull) = 0 THEN "starting point" ELSE "most counterclockwise"
        added   == Step("found", <<"Added", currentIndex, reason>>,
                        cur, null, null, pushed, noLine)
        first   == (currentIndex % Len(pts)) + 1
        initial == Step("checking", <<"initial candidate", currentIndex, first>>,
                        cur, pts[first], null, pushed, <<cur, pts[first]>>)
        scanned == scanNextSteps(pts, currentIndex, pushed,
                                 [nextIndex |-> first,
                                  steps |-> stepsSoFar \o <<added, initial>>],
                                 1)
    IN  IF scanned.nextIndex # startIndex /\ Len(pushed) <= Len(pts)
        THEN wrapStepsBoundTooLate(pts, startIndex, scanned.nextIndex, pushed, scanned.steps)
        ELSE [hull |-> pushed, steps |-> scanned.steps]

\* variant: the step that adds a vertex is pushed before the vertex is
RECURSIVE wrapStepsCommitBeforePush(_, _, _, _, _)
wrapStepsCommitBeforePush(pts, startIndex, currentIndex, hull, stepsSoFar) ==
    LET pushed  == Append(hull, pts[currentIndex])
        cur     == pts[currentIndex]
        reason  == IF Len(hull) = 0 THEN "starting point" ELSE "most counterclockwise"
        added   == Step("found", <<"Added", currentIndex, reason>>,
                        cur, null, null, hull, noLine)
        first   == (currentIndex % Len(pts)) + 1
        initial == Step("checking", <<"initial candidate", currentIndex, first>>,
                        cur, pts[first], null, pushed, <<cur, pts[first]>>)
        scanned == scanNextSteps(pts, currentIndex, pushed,
                                 [nextIndex |-> first,
                                  steps |-> stepsSoFar \o <<added, initial>>],
                                 1)
    IN  IF scanned.nextIndex # startIndex /\ Len(pushed) < Len(pts)
        THEN wrapStepsCommitBeforePush(pts, startIndex, scanned.nextIndex, pushed, scanned.steps)
        ELSE [hull |-> pushed, steps |-> scanned.steps]

\* the do-while loop of the tracer; returns [hull, steps]
RECURSIVE wrapSteps(_, _, _, _, _)
wrapSteps(pts, startIndex, currentIndex, hull, stepsSoFar) ==
    LET pushed  == Append(hull, pts[currentIndex])
        cur     == pts[currentIndex]
        reason  == IF Len(hull) = 0 THEN "starting point" ELSE "most counterclockwise"
        added   == Step("found", <<"Added", currentIndex, reason>>,
                        cur, null, null, pushed, noLine)
        first   == (currentIndex % Len(pts)) + 1
        initial == Step("checking", <<"initial candidate", currentIndex, first>>,
                        cur, pts[first], null, pushed, <<cur, pts[first]>>)
        scanned == scanNextSteps(pts, currentIndex, pushed,
                                 [nextIndex |-> first,
                                  steps |-> stepsSoFar \o <<added, initial>>],
                                 1)
    IN  IF scanned.nextIndex # startIndex /\ Len(pushed) < Len(pts)
        THEN wrapSteps(pts, startIndex, scanned.nextIndex, pushed, scanned.steps)
        ELSE [hull |-> pushed, steps |-> scanned.steps]

\* the hullTypes record and its `${hull.length}-gon` fallback
hullTypeName(count) ==
    CASE count = 1 -> "Point"
      [] count = 2 -> "Segment"
      [] count = 3 -> "Triangle"
      [] count = 4 -> "Quadrilateral"
      [] OTHER -> "n-gon"

\* variant: the early return is taken for `n < 2` only
jarvisMarchWithStepsFromTwo(pts) ==
    IF Len(pts) < 2
    THEN <<Step("complete", <<"Not enough points">>, null, null, null, pts, noLine)>>
    ELSE LET startIndex == findStart(pts, 2, 1)
             start      == Step("start", <<"Starting point found", startIndex>>,
                                pts[startIndex], null, null, <<>>, noLine)
             wrapped    == wrapSteps(pts, startIndex, startIndex, <<>>, <<start>>)
         IN  Append(wrapped.steps,
                    Step("complete",
                         <<"Convex hull complete", hullTypeName(Len(wrapped.hull)),
                           Len(wrapped.hull)>>,
                         null, null, null, wrapped.hull, noLine))

\* variant: the `start` step is pushed once more when the loop is left
jarvisMarchWithStepsStartTwice(pts) ==
    IF Len(pts) < 3
    THEN <<Step("complete", <<"Not enough points">>, null, null, null, pts, noLine)>>
    ELSE LET startIndex == findStart(pts, 2, 1)
             start      == Step("start", <<"Starting point found", startIndex>>,
                                pts[startIndex], null, null, <<>>, noLine)
             wrapped    == wrapSteps(pts, startIndex, startIndex, <<>>, <<start>>)
         IN  wrapped.steps \o
               <<start,
                 Step("complete",
                      <<"Convex hull complete", hullTypeName(Len(wrapped.hull)),
                        Len(wrapped.hull)>>,
                      null, null, null, wrapped.hull, noLine)>>

\* variant: the steps record `hullSoFar: hull`, the live array, instead of
\* the copy `[...hull]`, so that every step of the loop shows the final hull
jarvisMarchWithStepsLiveHull(pts) ==
    IF Len(pts) < 3
    THEN <<Step("complete", <<"Not enough points">>, null, null, null, pts, noLine)>>
    ELSE LET startIndex == findStart(pts, 2, 1)
             start      == Step("start", <<"Starting point found", startIndex>>,
                                pts[startIndex], null, null, <<>>, noLine)
             wrapped    == wrapSteps(pts, startIndex, startIndex, <<>>, <<start>>)
             live       == [i \in 1..Len(wrapped.steps) |->
                              IF i = 1 THEN wrapped.steps[i]
                              ELSE [wrapped.steps[i] EXCEPT !.hullSoFar = wrapped.hull]]
         IN  Append(live,
                    Step("complete",
                         <<"Convex hull complete", hullTypeName(Len(wrapped.hull)),
                           Len(wrapped.hull)>>,
                         null, null, null, wrapped.hull, noLine))

jarvisMarchWithSteps(pts) ==
    IF Len(pts) < 3
    THEN <<Step("complete", <<"Not enough points">>, null, null, null, pts, noLine)>>
    ELSE LET startIndex == findStart(pts, 2, 1)
             start      == Step("start", <<"Starting point found", startIndex>>,
                                pts[startIndex], null, null, <<>>, noLine)
             wrapped    == wrapSteps(pts, startIndex, startIndex, <<>>, <<start>>)
         IN  Append(wrapped.steps,
                    Step("complete",
                         <<"Convex hull complete", hullTypeName(Len(wrapped.hull)),
                           Len(wrapped.hull)>>,
                         null, null, null, wrapped.hull, noLine))

-----------------------------------------------------------------------------
(* The calls.  A caller holds an input, computes the hull and the trace of  *)
(* it as page.tsx does on every render, and may then compute the hull of    *)
(* the returned vertices or of the input with one of its points repeated.   *)

Init ==
    /\ points \in Inputs
    /\ pc = "input"
    /\ result = null
    /\ steps = null
    /\ second = null
    /\ currentStepIndex = 0
    /\ isPlaying = FALSE
    /\ speed = InitialSpeed
    /\ visualizationMode = FALSE

\* page.tsx: result = convexHull(points); steps = jarvisMarchWithSteps(points)
Render ==
    /\ pc = "input"
    /\ result' = convexHull(points)
    /\ steps' = jarvisMarchWithSteps(points)
    /\ pc' = "rendered"
    /\ UNCHANGED <<points, second>>
    /\ UNCHANGED playback

\* convexHull(convexHull(points).vertices)
Rehull ==
    /\ pc = "rendered"
    /\ second' = convexHull(result.vertices)
    /\ pc' = "rehulled"
    /\ UNCHANGED <<points, result, steps>>
    /\ UNCHANGED playback

\* convexHull of the input with a copy of its k-th point appended
HullWithCopy(k) ==
    /\ pc = "rendered"
    /\ second' = convexHull(Append(points, points[k]))
    /\ pc' = "copied"
    /\ UNCHANGED <<points, result, steps>>
    /\ UNCHANGED playback

\* jarvisMarch called on the input as it is, well-formed or not
CallJarvisMarch ==
    /\ pc = "rendered"
    /\ second' = jarvisMarch(points)
    /\ pc' = "marched"
    /\ UNCHANGED <<points, result, steps>>
    /\ UNCHANGED playback

\* removeDuplicates called on the input
CallRemoveDuplicates ==
    /\ pc = "rendered"
    /\ second' = removeDuplicates(points)
    /\ pc' = "deduplicated"
    /\ UNCHANGED <<points, result, steps>>
    /\ UNCHANGED playback

\* areCollinear called as convexHull calls it, on the deduplicated input
CallAreCollinear ==
    /\ pc = "rendered"
    /\ second' = areCollinear(removeDuplicates(points))
    /\ pc' = "collinearity"
    /\ UNCHANGED <<points, result, steps>>
    /\ UNCHANGED playback

\* getSegmentEndpoints called on the deduplicated input
CallGetSegmentEndpoints ==
    /\ pc = "rendered"
    /\ second' = getSegmentEndpoints(removeDuplicates(points))
    /\ pc' = "endpoints"
    /\ UNCHANGED <<points, result, steps>>
    /\ UNCHANGED playback

\* the input in another order: position i holds the perm[i]-th point
Permuted(pts, perm) == [i \in 1..Len(pts) |-> pts[perm[i]]]

\* convexHull of the input in another order
HullOfPermutation(perm) ==
    /\ pc = "rendered"
    /\ second' = convexHull(Permuted(points, perm))
    /\ pc' = "permuted"
    /\ UNCHANGED <<points, result, steps>>
    /\ UNCHANGED playback

\* giftWrap called as the earlier convexHull calls it, on the deduplicated
\* input
CallGiftWrap ==
    /\ pc = "rendered"
    /\ second' = giftWrap(removeDuplicates(points))
    /\ pc' = "giftwrapped"
    /\ UNCHANGED <<points, result, steps>>
    /\ UNCHANGED playback

Next ==
    \/ Render
    \/ Rehull
    \/ \E k \in 1..Len(points) : HullWithCopy(k)
    \/ CallJarvisMarch
    \/ CallRemoveDuplicates
    \/ CallAreCollinear
    \/ CallGetSegmentEndpoints
    \/ \E perm \in Permutations(1..Len(points)) : HullOfPermutation(perm)
    \/ CallGiftWrap

Spec == Init /\ [][Next]_vars

\* The same calls, on the inputs above and on larger ones: BigLen distinct
\* points of the grid, listed in ascending order (lower y, then lower x) from
\* any of them on.
InitBig ==
    /\ points \in Inputs \cup BigInputs
    /\ pc = "input"
    /\ result = null
    /\ steps = null
    /\ second = null
    /\ currentStepIndex = 0
    /\ isPlaying = FALSE
    /\ speed = InitialSpeed
    /\ visualizationMode = FALSE

SpecBig == InitBig /\ [][Next]_vars

-----------------------------------------------------------------------------
(* page.tsx and AlgorithmControls.tsx: the page and its playback controls.  *)
(* A state is the page as rendered, with every effect of the last event     *)
(* run: result and steps are the memoised values for the current points.    *)

InitPlay ==
    /\ points = initialPoints
    /\ pc = "page"
    /\ result = convexHull(initialPoints)
    /\ steps = jarvisMarchWithSteps(initialPoints)
    /\ second = null
    /\ currentStepIndex = 0
    /\ isPlaying = FALSE
    /\ speed = InitialSpeed
    /\ visualizationMode = FALSE

\* AlgorithmControls.tsx: isComplete
isComplete == currentStepIndex >= Len(steps) - 1

\* variant: at the last step the callback returns `prev` and leaves
\* isPlaying as it is
TickNeverStops ==
    /\ pc = "page"
    /\ isPlaying
    /\ IF currentStepIndex >= Len(steps) - 1
       THEN UNCHANGED <<currentStepIndex, isPlaying>>
       ELSE currentStepIndex' = currentStepIndex + 1 /\ UNCHANGED isPlaying
    /\ UNCHANGED <<points, pc, result, steps, second, speed, visualizationMode>>

\* variant: the callback always returns `prev + 1`
TickNoEndTest ==
    /\ pc = "page"
    /\ isPlaying
    /\ currentStepIndex' = currentStepIndex + 1
    /\ UNCHANGED <<points, pc, result, steps, second, isPlaying, speed, visualizationMode>>

\* the callback of the auto-play interval, which runs while isPlaying
Tick ==
    /\ pc = "page"
    /\ isPlaying
    /\ IF currentStepIndex >= Len(steps) - 1
       THEN isPlaying' = FALSE /\ UNCHANGED currentStepIndex
       ELSE currentStepIndex' = currentStepIndex + 1 /\ UNCHANGED isPlaying
    /\ UNCHANGED <<points, pc, result, steps, second, speed, visualizationMode>>

\* the Play button, shown when not playing and disabled when isComplete
handlePlay ==
    /\ pc = "page"
    /\ visualizationMode
    /\ ~isPlaying
    /\ ~isComplete
    /\ currentStepIndex' = IF currentStepIndex >= Len(steps) - 1
                           THEN 0 ELSE currentStepIndex
    /\ isPlaying' = TRUE
    /\ UNCHANGED <<points, pc, result, steps, second, speed, visualizationMode>>

\* the Pause button, shown when playing
handlePause ==
    /\ pc = "page"
    /\ visualizationMode
    /\ isPlaying
    /\ isPlaying' = FALSE
    /\ UNCHANGED <<points, pc, result, steps, second, currentStepIndex, speed,
                   visualizationMode>>

\* the Reset button, disabled at step 0
handleReset ==
    /\ pc = "page"
    /\ visualizationMode
    /\ currentStepIndex # 0
    /\ currentStepIndex' = 0
    /\ isPlaying' = FALSE
    /\ UNCHANGED <<points, pc, result, steps, second, speed, visualizationMode>>

\* the Previous step button, disabled at step 0
PreviousStep ==
    /\ pc = "page"
    /\ visualizationMode
    /\ currentStepIndex # 0
    /\ currentStepIndex' = IF currentStepIndex - 1 > 0 THEN currentStepIndex - 1 ELSE 0
    /\ UNCHANGED <<points, pc, result, steps, second, isPlaying, speed,
                   visualizationMode>>

\* the Next step button, disabled when isComplete
NextStep ==
    /\ pc = "page"
    /\ visualizationMode
    /\ ~isComplete
    /\ currentStepIndex' = IF currentStepIndex + 1 < Len(steps) - 1
                           THEN currentStepIndex + 1 ELSE Len(steps) - 1
    /\ UNCHANGED <<points, pc, result, steps, second, isPlaying, speed,
                   visualizationMode>>

\* the speed slider
onSpeedChange(v) ==
    /\ pc = "page"
    /\ visualizationMode
    /\ speed' = v
    /\ UNCHANGED <<points, pc, result, steps, second, currentStepIndex, isPlaying,
                   visualizationMode>>

\* the Result button
ShowResult ==
    /\ pc = "page"
    /\ visualizationMode' = FALSE
    /\ UNCHANGED <<points, pc, result, steps, second, currentStepIndex, isPlaying,
                   speed>>

\* the Step-by-Step button
ShowStepByStep ==
    /\ pc = "page"
    /\ visualizationMode' = TRUE
    /\ currentStepIndex' = 0
    /\ isPlaying' = FALSE
    /\ UNCHANGED <<points, pc, result, steps, second, speed>>

\* variant: the effect that resets the step when the points change is missing
setPointsNoReset(newPoints) ==
    /\ points' = newPoints
    /\ result' = convexHull(newPoints)
    /\ steps' = jarvisMarchWithSteps(newPoints)
    /\ UNCHANGED <<currentStepIndex, isPlaying>>

\* setPoints with a new array: the memoised result and steps are computed
\* again and the effect on [points] resets the step and stops playback
setPoints(newPoints) ==
    /\ points' = newPoints
    /\ result' = convexHull(newPoints)
    /\ steps' = jarvisMarchWithSteps(newPoints)
    /\ currentStepIndex' = 0
    /\ isPlaying' = FALSE

\* PointInput.tsx handleChange, then page.tsx handlePointsChange
handleChange(index, coord, value) ==
    /\ pc = "page"
    /\ setPoints([points EXCEPT ![index] = [@ EXCEPT ![coord] = value]])
    /\ visualizationMode' = FALSE
    /\ UNCHANGED <<pc, second, speed>>

\* page.tsx handlePointDrag; Chart.tsx starts a drag only outside the
\* step-by-step mode
handlePointDrag(index, newPoint) ==
    /\ pc = "page"
    /\ ~visualizationMode
    /\ IF points[index].x = newPoint.x /\ points[index].y = newPoint.y
       THEN UNCHANGED <<points, result, steps, currentStepIndex, isPlaying>>
       ELSE setPoints([points EXCEPT ![index] = newPoint])
    /\ UNCHANGED <<pc, second, speed, visualizationMode>>

\* what the user can do
UserAction ==
    \/ handlePlay
    \/ handlePause
    \/ handleReset
    \/ PreviousStep
    \/ NextStep
    \/ \E v \in MinSpeed..MaxSpeed : onSpeedChange(v)
    \/ ShowResult
    \/ ShowStepByStep
    \/ \E index \in 1..Editable, coord \in {"x", "y"}, value \in 0..MaxCoord :
           handleChange(index, coord, value)
    \/ \E index \in 1..Editable, newPoint \in Point : handlePointDrag(index, newPoint)

NextPlay == Tick \/ UserAction

SpecPlay == InitPlay /\ [][NextPlay]_vars

\* Playback left alone: the user acts only while playback is stopped, and
\* the interval keeps firing.
NextAutoPlay == Tick \/ (~isPlaying /\ UserAction)

SpecAutoPlay == InitPlay /\ [][NextAutoPlay]_vars /\ WF_vars(Tick)

-----------------------------------------------------------------------------
(* Geometry used to state the properties *)

\* the set of points that occur in a sequence
PointSet(pts) == {pts[i] : i \in 1..Len(pts)}

\* the successor of index i in the cyclic order of a sequence of length n
CyclicNext(i, n) == (i % n) + 1

\* p lies on the closed segment from a to b
OnSegment(p, a, b) ==
    /\ crossProduct(a, b, p) = 0
    /\ (a.x - p.x) * (b.x - p.x) + (a.y - p.y) * (b.y - p.y) <= 0

\* p lies on the segment from a to b and is neither end of it
StrictlyBetween(p, a, b) ==
    /\ crossProduct(a, b, p) = 0
    /\ (a.x - p.x) * (b.x - p.x) + (a.y - p.y) * (b.y - p.y) < 0

\* p lies in the open triangle a, b, c
StrictlyInsideTriangle(p, a, b, c) ==
    LET d1 == crossProduct(a, b, p)
        d2 == crossProduct(b, c, p)
        d3 == crossProduct(c, a, p)
    IN  (d1 > 0 /\ d2 > 0 /\ d3 > 0) \/ (d1 < 0 /\ d2 < 0 /\ d3 < 0)

\* p lies inside or on the boundary of the convex polygon v (either orientation)
InPolygon(p, v) ==
    LET n == Len(v)
    IN  \/ \A i \in 1..n : crossProduct(v[i], v[CyclicNext(i, n)], p) >= 0
        \/ \A i \in 1..n : crossProduct(v[i], v[CyclicNext(i, n)], p) <= 0

\* p is in the convex hull of the other points of S
InHullOfOthers(p, S) ==
    \E a, b, c \in S \ {p} :
        \/ OnSegment(p, a, b)
        \/ (crossProduct(a, b, c) # 0 /\ InPolygon(p, <<a, b, c>>))

\* all points of S lie on one line
AllOnOneLine(S) == \A a, b, c \in S : crossProduct(a, b, c) = 0

\* p is first in the order "lower y, then lower x" among the points of S
LowestOf(p, S) == \A q \in S \ {p} : lowerFirst(p, q)

Rendered == pc # "input"

-----------------------------------------------------------------------------
(* Properties *)

\* C1: a returned hull of 3 or more vertices is in counter-clockwise order:
\* every cyclically consecutive triple of vertices has a non-negative cross
\* product.
CounterClockwiseOrder ==
    Rendered /\ Len(result.vertices) >= 3 =>
        LET v == result.vertices
            n == Len(v)
        IN  \A i \in 1..n :
                crossProduct(v[i], v[CyclicNext(i, n)],
                             v[CyclicNext(CyclicNext(i, n), n)]) >= 0

\* C2: every input point is contained in the returned hull (the vertex, the
\* closed segment, or the closed polygon), and when every input point is an
\* extreme point all of them are vertices.
HullContainsInput ==
    Rendered /\ Len(points) > 0 =>
        LET v == result.vertices
            S == PointSet(points)
        IN  /\ \A p \in S :
                CASE result.type = "point"   -> Len(v) = 1 /\ p = v[1]
                  [] result.type = "segment" -> Len(v) = 2 /\ OnSegment(p, v[1], v[2])
                  [] OTHER                   -> Len(v) >= 3 /\ InPolygon(p, v)
            /\ (\A p \in S : ~InHullOfOthers(p, S)) => PointSet(v) = S

ContainsInteriorCase ==
    /\ pc = "rendered"
    /\ Len(result.vertices) >= 3
    /\ \E p \in PointSet(points) : p \notin PointSet(result.vertices)

\* C3: no returned vertex lies strictly inside a triangle of three other
\* input points.
NoInteriorVertex ==
    Rendered =>
        LET S == PointSet(points)
        IN  \A p \in PointSet(result.vertices) :
                \A a, b, c \in S \ {p} : ~StrictlyInsideTriangle(p, a, b, c)

InteriorPointCase ==
    /\ pc = "rendered"
    /\ result.type = "triangle"
    /\ LET S == PointSet(points)
       IN  \E p \in S : \E a, b, c \in S \ {p} : StrictlyInsideTriangle(p, a, b, c)

\* C4: no returned vertex lies strictly between two other input points, and
\* no three consecutive vertices of a returned polygon are collinear.
NoEdgePointVertex ==
    Rendered =>
        LET S == PointSet(points)
            v == result.vertices
            n == Len(v)
        IN  /\ \A p \in PointSet(v) :
                \A a, b \in S \ {p} : ~StrictlyBetween(p, a, b)
            /\ n >= 3 =>
                \A i \in 1..n :
                    crossProduct(v[i], v[CyclicNext(i, n)],
                                 v[CyclicNext(CyclicNext(i, n), n)]) # 0

EdgePointCase ==
    /\ pc = "rendered"
    /\ Len(result.vertices) >= 3
    /\ LET S == PointSet(points)
       IN  \E p \in S : \E a, b \in S \ {p} :
               /\ StrictlyBetween(p, a, b)
               /\ a \in PointSet(result.vertices)
               /\ b \in PointSet(result.vertices)

\* C5: the hull recorded in the last step of the trace, a `complete` step, is
\* the vertex sequence convexHull returns for the same input.
TraceAgreesWithResult ==
    Rendered =>
        /\ steps[Len(steps)].type = "complete"
        /\ steps[Len(steps)].hullSoFar = result.vertices

\* C6: the hull of the returned vertices is the returned hull again.
Idempotence ==
    pc = "rehulled" => second = result

RehulledPolygonCase ==
    /\ pc = "rehulled"
    /\ Len(result.vertices) >= 3
    /\ Len(removeDuplicates(points)) > Len(result.vertices)

\* C7: both entry points return a well-formed value for every input, the
\* empty one included: a hull with one of the four labels and a sequence of
\* input points, and a non-empty sequence of steps; the empty input gives a
\* `point` with no vertices.
Totality ==
    Rendered =>
        /\ result.type \in HullType
        /\ result.vertices \in Seq(Point)
        /\ Len(steps) >= 1
        /\ \A i \in 1..Len(steps) :
               /\ steps[i].type \in {"start", "checking", "found", "complete"}
               /\ steps[i].hullSoFar \in Seq(Point)
        /\ points = <<>> => result = [type |-> "point", vertices |-> <<>>]

EmptyInputCase ==
    /\ pc = "rendered"
    /\ points = <<>>
    /\ Len(steps) = 1

\* C8: the type is decided by the distinct input points: `point` for at most
\* one, `segment` for two or more that are all on one line, a polygon label
\* with 3 or more vertices otherwise.
TypeByDistinctPoints ==
    Rendered =>
        LET S == PointSet(points)
        IN  /\ result.type = "point" <=> Cardinality(S) <= 1
            /\ result.type = "segment" <=> (Cardinality(S) >= 2 /\ AllOnOneLine(S))
            /\ (result.type \in {"triangle", "quadrilateral"} /\ Len(result.vertices) >= 3)
                 <=> (Cardinality(S) >= 3 /\ ~AllOnOneLine(S))

LateOffLinePointCase ==
    /\ pc = "rendered"
    /\ Len(points) = 4
    /\ crossProduct(points[1], points[2], points[3]) = 0
    /\ crossProduct(points[1], points[2], points[4]) # 0
    /\ result.type = "triangle"

\* C9: two or more distinct points that are all on one line give a `segment`
\* of exactly the two extreme points, the lower one (by y, then x) first, and
\* every input point lies between them.
CollinearReduction ==
    LET S == PointSet(points)
    IN  Rendered /\ Cardinality(S) >= 2 /\ AllOnOneLine(S) =>
            /\ result.type = "segment"
            /\ Len(result.vertices) = 2
            /\ result.vertices[1] \in S
            /\ result.vertices[2] \in S
            /\ lowerFirst(result.vertices[1], result.vertices[2])
            /\ \A p \in S : OnSegment(p, result.vertices[1], result.vertices[2])

CollinearRunCase ==
    /\ pc = "rendered"
    /\ Cardinality(PointSet(points)) >= 3
    /\ AllOnOneLine(PointSet(points))
    /\ result.vertices[1] # points[1]

\* C10: appending a copy of a point of the input changes neither the type
\* nor the vertex sequence, and an input of copies of one point gives a
\* `point` with that single vertex.
DuplicatesIgnored ==
    /\ pc = "copied" => second = result
    /\ Rendered /\ Len(points) >= 1 /\ Cardinality(PointSet(points)) = 1 =>
           result = [type |-> "point", vertices |-> <<points[1]>>]

CopyOfPolygonInputCase ==
    /\ pc = "copied"
    /\ Len(second.vertices) >= 3
    /\ Len(points) = MaxLen

\* a well-formed input of the hull computer: 3 or more points, no two of
\* them equal, not all on one line
WellFormed(pts) ==
    /\ Len(pts) >= 3
    /\ \A i, j \in 1..Len(pts) : i # j => pts[i] # pts[j]
    /\ ~AllOnOneLine(PointSet(pts))

\* the index of the first occurrence of p in pts
FirstIndex(pts, p) == CHOOSE i \in 1..Len(pts) : pts[i] = p /\ \A j \in 1..(i - 1) : pts[j] # p

\* the hull recorded in the last step of the trace
FinalHull == steps[Len(steps)].hullSoFar

\* C11: every returned vertex is one of the input points.
SubsetProperty ==
    Rendered =>
        \A i \in 1..Len(result.vertices) :
            \E k \in 1..Len(removeDuplicates(points)) :
                result.vertices[i] = removeDuplicates(points)[k]

SlantedSegmentCase ==
    /\ pc = "rendered"
    /\ result.type = "segment"
    /\ result.vertices[1].x > result.vertices[2].x
    /\ Len(points) >= 3

\* C12: no point occurs twice in the returned vertex sequence.
NoDuplicateVertices ==
    Rendered =>
        \A i, j \in 1..Len(result.vertices) :
            i # j => result.vertices[i] # result.vertices[j]

TriangleWithExtraPointCase ==
    /\ pc = "rendered"
    /\ Len(result.vertices) = 3
    /\ Len(removeDuplicates(points)) = 4

\* C13: the first returned vertex is the input point with the least y and,
\* among those, the least x.
FirstVertexIsLowest ==
    Rendered /\ Len(points) > 0 =>
        /\ Len(result.vertices) >= 1
        /\ result.vertices[1] \in PointSet(points)
        /\ LowestOf(result.vertices[1], PointSet(points))

LowestNotFirstInputCase ==
    /\ pc = "rendered"
    /\ Len(result.vertices) >= 3
    /\ result.vertices[1] # points[1]
    /\ result.vertices[1].y = points[1].y

\* C14: the type label goes with the number of vertices: `point` for 0 or 1,
\* `segment` for 2, `triangle` for 3, `quadrilateral` for 4 or more; a hull
\* of 5 or more vertices keeps every extreme point of the input.
TypeMatchesVertexCount ==
    Rendered =>
        LET n == Len(result.vertices)
            S == PointSet(points)
        IN  /\ result.type = "point" <=> n <= 1
            /\ result.type = "segment" <=> n = 2
            /\ result.type = "triangle" <=> n = 3
            /\ result.type = "quadrilateral" <=> n >= 4
            /\ n >= 5 => PointSet(result.vertices) = {p \in S : ~InHullOfOthers(p, S)}

PentagonCase ==
    /\ pc = "rendered"
    /\ Len(result.vertices) >= 5

\* C15: the trace ends with a `complete` step, has no other `complete` step,
\* and has exactly one step when the input has fewer than 3 points.
TraceTermination ==
    Rendered =>
        /\ steps[Len(steps)].type = "complete"
        /\ \A i \in 1..(Len(steps) - 1) : steps[i].type # "complete"
        /\ Len(points) < 3 => Len(steps) = 1

TwoPointTraceCase ==
    /\ pc = "rendered"
    /\ Len(points) = 2
    /\ points[1] # points[2]
    /\ steps[1].type = "complete"

\* C16: on a well-formed input the hull recorded at the end of the trace is
\* the sequence jarvisMarch returns for the same input.
TraceMatchesJarvisMarch ==
    pc = "marched" /\ WellFormed(points) => FinalHull = second

OtherInitialCandidateCase ==
    /\ pc = "marched"
    /\ WellFormed(points)
    /\ Len(second) < Len(points)
    /\ \E i \in 1..Len(steps) :
           /\ steps[i].description[1] = "initial candidate"
           /\ steps[i].description[2] > 1
           /\ steps[i].description[3] # 1

\* C17: on a well-formed input the category named in the `complete` step is
\* the type convexHull returns: Triangle with `triangle`, Quadrilateral with
\* `quadrilateral`.
TraceCategoryMatchesType ==
    Rendered /\ WellFormed(points) =>
        LET name == steps[Len(steps)].description[2]
        IN  \/ name = "Triangle" /\ result.type = "triangle"
            \/ name = "Quadrilateral" /\ result.type = "quadrilateral"

\* C18: removeDuplicates returns the points of the input, each once, in the
\* order of their first occurrence, and changes nothing when applied again.
RemoveDuplicatesContract ==
    pc = "deduplicated" =>
        /\ \A i, j \in 1..Len(second) : i # j => second[i] # second[j]
        /\ PointSet(second) = PointSet(points)
        /\ \A i, j \in 1..Len(second) :
               i < j => FirstIndex(points, second[i]) < FirstIndex(points, second[j])
        /\ removeDuplicates(second) = second

LaterCopyCase ==
    /\ pc = "deduplicated"
    /\ Len(points) >= 3
    /\ points[1] = points[3]
    /\ points[1] # points[2]

\* C19: on every input of n >= 3 points, malformed ones included, jarvisMarch
\* and the traced loop end and return between 1 and n vertices.
BoundedHull ==
    pc = "marched" /\ Len(points) >= 3 =>
        /\ Len(second) >= 1
        /\ Len(second) <= Len(points)
        /\ Len(FinalHull) >= 1
        /\ Len(FinalHull) <= Len(points)

SafetyBoundCase ==
    /\ pc = "marched"
    /\ Len(points) >= 3
    /\ ~WellFormed(points)
    /\ Len(second) < Len(points)
    /\ Len(FinalHull) = Len(points)
    /\ Cardinality(PointSet(FinalHull)) < Len(FinalHull)

\* C20: the trace of an input of 3 or more points begins with its only
\* `start` step, ends with its only `complete` step, and has only `checking`
\* and `found` steps between them.
TraceStateMachine ==
    Rendered /\ Len(points) >= 3 =>
        /\ steps[1].type = "start"
        /\ steps[Len(steps)].type = "complete"
        /\ \A i \in 2..(Len(steps) - 1) : steps[i].type \in {"checking", "found"}

LongTraceCase ==
    /\ pc = "rendered"
    /\ Len(points) >= 3
    /\ Len(steps) > 20
    /\ \E i \in 2..(Len(steps) - 1) : steps[i].type = "found" /\ steps[i].checkingPoint # null

-----------------------------------------------------------------------------
(* The shape of the trace *)

\* the indices 1..n as a sequence
Indices(n) == [i \in 1..n |-> i]

\* the step adds a vertex to the hull
IsCommit(st) == st.type = "found" /\ st.candidatePoint = null

\* the step names the initial candidate of a vertex
IsInitialCandidate(st) == st.type = "checking" /\ st.checkingPoint = null

\* the step compares the candidate against a probe
IsComparison(st) == st.description[1] = "comparing"

\* the step tells the outcome of a comparison
IsOutcome(st) ==
    st.description[1] \in {"more counterclockwise", "collinear but farther",
                           "collinear but closer", "more clockwise"}

\* the step sets the running candidate
SetsCandidate(st) ==
    IsInitialCandidate(st) \/ (st.type = "found" /\ st.candidatePoint # null)

\* the positions of the steps that add a vertex, in order
CommitPositions == SelectSeq(Indices(Len(steps)), LAMBDA i : IsCommit(steps[i]))

\* the number of the vertex being left when step j is recorded
RoundOf(j) == Cardinality({i \in 1..j : IsCommit(steps[i])})

\* the positions of the comparisons made from the r-th vertex
ComparisonsOf(r) == {j \in 1..Len(steps) : IsComparison(steps[j]) /\ RoundOf(j) = r}

\* C21: the steps that add a vertex correspond one to one, in order, to the
\* vertices of the final hull: the k-th has the k-th vertex as currentPoint
\* and the first k vertices as hullSoFar.
CommitsMatchFinalHull ==
    Rendered /\ Len(points) >= 3 =>
        /\ Len(CommitPositions) = Len(FinalHull)
        /\ \A k \in 1..Len(CommitPositions) :
               /\ steps[CommitPositions[k]].currentPoint = FinalHull[k]
               /\ steps[CommitPositions[k]].hullSoFar = SubSeq(FinalHull, 1, k)

FourCommitsCase ==
    /\ pc = "rendered"
    /\ Len(CommitPositions) = 4
    /\ Len(FinalHull) = 4

\* C22: along the trace the recorded hulls never get shorter, each is a
\* prefix of the final hull, a step records the hull as it is when the step
\* is made, and the `start` step records the empty hull.
HullSnapshots ==
    Rendered =>
        /\ \A i \in 1..(Len(steps) - 1) :
               Len(steps[i].hullSoFar) <= Len(steps[i + 1].hullSoFar)
        /\ \A i \in 1..Len(steps) :
               /\ Len(steps[i].hullSoFar) <= Len(FinalHull)
               /\ steps[i].hullSoFar = SubSeq(FinalHull, 1, Len(steps[i].hullSoFar))
        /\ \A i \in 1..Len(steps) :
               steps[i].type \in {"checking", "found"} =>
                   Len(steps[i].hullSoFar) = RoundOf(i)
        /\ Len(points) >= 3 => steps[1].hullSoFar = <<>>

GrowingHullCase ==
    /\ pc = "rendered"
    /\ Len(FinalHull) >= 3
    /\ \E i \in 1..Len(steps) : Len(steps[i].hullSoFar) = 1
    /\ \E i \in 1..Len(steps) : Len(steps[i].hullSoFar) = 2

\* C23 as stated: the candidatePoint of every `checking` step is the
\* candidatePoint of the latest `found` step before it.
CheckingMatchesLastFound ==
    Rendered =>
        \A i \in 1..Len(steps) :
            steps[i].type = "checking" =>
                LET F == {j \in 1..(i - 1) : steps[j].type = "found"}
                IN  /\ F # {}
                    /\ steps[i].candidatePoint =
                         steps[CHOOSE j \in F : \A k \in F : k <= j].candidatePoint

\* C23 as amended: the candidatePoint of every `checking` step that makes or
\* answers a comparison is the candidatePoint of the latest step before it
\* that set the candidate: the initial-candidate step of the current vertex
\* or a `found` step that changed the candidate.
CheckingMatchesLastCandidate ==
    Rendered =>
        \A i \in 1..Len(steps) :
            steps[i].type = "checking" /\ ~IsInitialCandidate(steps[i]) =>
                LET F == {j \in 1..(i - 1) : SetsCandidate(steps[j])}
                IN  /\ F # {}
                    /\ steps[i].candidatePoint =
                         steps[CHOOSE j \in F : \A k \in F : k <= j].candidatePoint
                    /\ RoundOf(CHOOSE j \in F : \A k \in F : k <= j) = RoundOf(i)

KeptCandidateCase ==
    /\ pc = "rendered"
    /\ \E i \in 2..Len(steps) :
           /\ steps[i].description[1] = "more clockwise"
           /\ \E j \in 1..(i - 1) : steps[j].description[1] = "more counterclockwise"
                                    /\ RoundOf(j) = RoundOf(i)

\* C28 as stated: the trace of n >= 3 points with h hull vertices has
\* 2 + h * (2n - 2) steps, n - 2 comparisons being made from every vertex.
TraceLengthFixed ==
    Rendered /\ Len(points) >= 3 =>
        /\ Len(steps) = 2 + Len(FinalHull) * (2 * Len(points) - 2)
        /\ \A r \in 1..Len(FinalHull) : Cardinality(ComparisonsOf(r)) = Len(points) - 2

\* C28 as amended: the trace is one `start`, then for every hull vertex one
\* step that adds it, one initial-candidate step and for every probe one
\* comparison followed at once by one outcome (`found` if the candidate
\* changed, `checking` otherwise), then one `complete`.  The probes of a
\* vertex are the n - 2 remaining points and, when a probe of lower index has
\* replaced the initial candidate, the initial candidate as well, so the
\* trace has 2 + 2h + 2c steps for c comparisons, h(n-2) <= c <= h(n-1).
TraceLengthByProbes ==
    Rendered /\ Len(points) >= 3 =>
        LET n == Len(points)
            h == Len(FinalHull)
            c == Cardinality({j \in 1..Len(steps) : IsComparison(steps[j])})
        IN  /\ Len(steps) = 2 + 2 * h + 2 * c
            /\ Len(CommitPositions) = h
            /\ \A k \in 1..h : IsInitialCandidate(steps[CommitPositions[k] + 1])
            /\ Cardinality({j \in 1..Len(steps) : IsInitialCandidate(steps[j])}) = h
            /\ \A j \in 1..Len(steps) :
                   IsComparison(steps[j]) =>
                       /\ IsOutcome(steps[j + 1])
                       /\ steps[j + 1].checkingPoint = steps[j].checkingPoint
                       /\ steps[j + 1].type = "found"
                            <=> steps[j + 1].candidatePoint # steps[j].candidatePoint
            /\ \A j \in 1..Len(steps) : IsOutcome(steps[j]) => IsComparison(steps[j - 1])
            /\ \A r \in 1..h :
                   LET first   == steps[CommitPositions[r] + 1].description[3]
                       replaced == \E j \in 1..Len(steps) :
                                       /\ RoundOf(j) = r
                                       /\ IsOutcome(steps[j])
                                       /\ steps[j].type = "found"
                                       /\ steps[j].description[2] < first
                   IN  Cardinality(ComparisonsOf(r)) = IF replaced THEN n - 1 ELSE n - 2

ReprobedCandidateCase ==
    /\ pc = "rendered"
    /\ WellFormed(points)
    /\ \E r \in 1..Len(FinalHull) : Cardinality(ComparisonsOf(r)) = Len(points) - 1
    /\ \E r \in 1..Len(FinalHull) : Cardinality(ComparisonsOf(r)) = Len(points) - 2

-----------------------------------------------------------------------------
(* The helpers of convexHull on their own, input order, and giftWrap *)

\* C24: on a deduplicated input of 3 or more points, areCollinear returns
\* true exactly when all the points of the input lie on one line, that is
\* when every triple of them has cross product zero.
CollinearityTest ==
    (pc = "collinearity" /\ Len(removeDuplicates(points)) >= 3)
        => (second <=> AllOnOneLine(PointSet(points)))

\* four distinct points, the first three on one line and the fourth off it,
\* tested
LateOffLineTestedCase ==
    /\ pc = "collinearity"
    /\ Len(points) = 4
    /\ Cardinality(PointSet(points)) = 4
    /\ crossProduct(points[1], points[2], points[3]) = 0
    /\ crossProduct(points[1], points[2], points[4]) # 0
    /\ second = FALSE

\* the pairs (i, j), i < j, of positions of a sequence
Pairs(pts) == {ij \in (1..Len(pts)) \X (1..Len(pts)) : ij[1] < ij[2]}

\* pair a comes before pair b in the scan: i ascending, then j ascending
ScannedBefore(a, b) == a[1] < b[1] \/ (a[1] = b[1] /\ a[2] < b[2])

\* the pairs of positions whose points are farthest apart
FarthestPairs(pts) ==
    {ij \in Pairs(pts) : \A kl \in Pairs(pts) :
        distanceSquared(pts[ij[1]], pts[ij[2]]) >= distanceSquared(pts[kl[1]], pts[kl[2]])}

\* C25: on a deduplicated input of 2 or more points, getSegmentEndpoints
\* returns two points of the input that are as far apart as any two points of
\* it, namely the first farthest pair in the scan of the pairs (i, j), i < j,
\* in index order, and returns them lower y first, lower x first on equal y.
SegmentEndpointsContract ==
    (pc = "endpoints" /\ Len(removeDuplicates(points)) >= 2)
        => LET unique == removeDuplicates(points)
               first  == CHOOSE ij \in FarthestPairs(unique) :
                             \A kl \in FarthestPairs(unique) \ {ij} : ScannedBefore(ij, kl)
           IN  /\ Len(second) = 2
               /\ PointSet(second) \subseteq PointSet(points)
               /\ \A kl \in Pairs(unique) :
                      distanceSquared(second[1], second[2])
                        >= distanceSquared(unique[kl[1]], unique[kl[2]])
               /\ PointSet(second) = {unique[first[1]], unique[first[2]]}
               /\ lowerFirst(second[1], second[2])

\* two farthest pairs of different points, and the first of them holds the
\* lower point second
TiedFarthestPairsCase ==
    /\ pc = "endpoints"
    /\ LET unique == removeDuplicates(points)
       IN  /\ Len(unique) >= 4
           /\ Cardinality(FarthestPairs(unique)) >= 2
           /\ \E ij \in FarthestPairs(unique) :
                  /\ \A kl \in FarthestPairs(unique) \ {ij} : ScannedBefore(ij, kl)
                  /\ lowerFirst(unique[ij[2]], unique[ij[1]])
                  /\ second = <<unique[ij[2]], unique[ij[1]]>>

\* C26: convexHull returns the same type and the same sequence of vertices
\* for an input and for every permutation of it.
OrderInsensitive ==
    pc = "permuted" => second = result

\* a polygon whose first vertex is not the first point of either order, and
\* an order that moves every point
PermutedPolygonCase ==
    /\ pc = "permuted"
    /\ Len(points) = 4
    /\ Len(second.vertices) >= 3
    /\ second.vertices[1] # points[1]
    /\ \E perm \in Permutations(1..Len(points)) :
           /\ \A i \in 1..Len(points) : Permuted(points, perm)[i] # points[i]
           /\ second.vertices[1] # Permuted(points, perm)[1]
           /\ second = convexHull(Permuted(points, perm))

-----------------------------------------------------------------------------
(* Playback *)

\* the step index is an index of the step sequence of the current points
IndexInRange ==
    /\ steps = jarvisMarchWithSteps(points)
    /\ 0 <= currentStepIndex
    /\ currentStepIndex <= Len(steps) - 1

\* a step of the page that edits a point
PointEdit ==
    \/ points' # points
    \/ \E index \in 1..Editable, coord \in {"x", "y"}, value \in 0..MaxCoord :
           handleChange(index, coord, value)

TickStep ==
    \/ /\ currentStepIndex < Len(steps) - 1
       /\ currentStepIndex' = currentStepIndex + 1
       /\ isPlaying'
    \/ /\ currentStepIndex = Len(steps) - 1
       /\ currentStepIndex' = currentStepIndex
       /\ ~isPlaying'

\* C30: left alone with the interval firing, playback advances the step
\* index by exactly one per tick, reaches steps.length - 1, and at the next
\* tick stops with the index still steps.length - 1; while playback is
\* stopped the index advances only by the Next step button.
AutoPlayCompletes ==
    /\ [][Tick => TickStep]_vars
    /\ [][(~isPlaying /\ currentStepIndex' > currentStepIndex) => NextStep]_vars
    /\ isPlaying ~> (~isPlaying /\ currentStepIndex = Len(steps) - 1)

\* playback has run to the last step and the tick that stops it is due
PlayedToTheEndCase ==
    /\ pc = "page"
    /\ isPlaying
    /\ Len(steps) > 2
    /\ currentStepIndex = Len(steps) - 1

=============================================================================
